---------------------------- MODULE Spec2Model ----------------------------
(***************************************************************************)
(* API Endpoint Usage Checker (src/app.py).                                *)
(*                                                                         *)
(* Strings that the program inspects character by character (path          *)
(* templates, regular-expression patterns, source lines, file names) are   *)
(* sequences of one-character strings.                                     *)
(***************************************************************************)
EXTENDS Integers, Sequences, FiniteSets, TLC

VARIABLES
    pc,             \* position of the Streamlit script run (app.py:122-180)
    project_dirs,   \* app.py:128
    fs_mode,        \* how the file system answers a read of the fragile file
    endpoints,      \* app.py:124
    pidx,           \* index in project_dirs of the root being processed
    walk,           \* files os.walk has still to yield in the running scan
    cur,            \* the open file of the running scan: <<>> or <<file>>
    lineno,         \* lines of cur already yielded by enumerate
    used,           \* find_endpoints_in_code's local map
    used_map,       \* app.py:129
    partials,       \* the values find_endpoints_in_code returned so far
    warnings,       \* file paths passed to st.warning
    rows,           \* app.py:138-145
    csv_rows,       \* export_to_csv's rows
    re_pc,          \* pattern-compiler harness: position
    re_tmpl,        \* pattern-compiler harness: path template
    re_line,        \* pattern-compiler harness: source line
    re_pat,         \* pattern-compiler harness: compiled matcher
    re_res          \* pattern-compiler harness: result of pattern.search

vars == <<pc, project_dirs, fs_mode, endpoints, pidx, walk, cur,
          lineno, used, used_map, partials, warnings, rows, csv_rows,
          re_pc, re_tmpl, re_line, re_pat, re_res>>

mainVars == <<pc, project_dirs, fs_mode, endpoints, pidx, walk,
              cur, lineno, used, used_map, partials, warnings, rows, csv_rows>>

reVars == <<re_pc, re_tmpl, re_line, re_pat, re_res>>

(***************************************************************************)
(* Characters.                                                             *)
(***************************************************************************)
LowerLetters == <<"a","b","c","d","e","f","g","h","i","j","k","l","m",
                  "n","o","p","q","r","s","t","u","v","w","x","y","z">>
UpperLetters == <<"A","B","C","D","E","F","G","H","I","J","K","L","M",
                  "N","O","P","Q","R","S","T","U","V","W","X","Y","Z">>
Digits == {"0","1","2","3","4","5","6","7","8","9"}

Range(f) == {f[x] : x \in DOMAIN f}

\* [a-zA-Z_] and [a-zA-Z0-9_] of the two re.sub patterns
IdentStart == Range(LowerLetters) \cup Range(UpperLetters) \cup {"_"}
IdentChar == IdentStart \cup Digits

\* re.IGNORECASE: characters are compared after case folding
FoldCase(c) ==
    IF c \in Range(UpperLetters)
    THEN LowerLetters[CHOOSE i \in DOMAIN UpperLetters : UpperLetters[i] = c]
    ELSE c

\* str.upper() on one character
UpperChar(c) ==
    IF c \in Range(LowerLetters)
    THEN UpperLetters[CHOOSE i \in DOMAIN LowerLetters : LowerLetters[i] = c]
    ELSE c

\* re.escape (Python 3.7 and later) escapes exactly these characters
EscapeSpecial == {"(", ")", "[", "]", "{", "}", "?", "*", "+", "-", "|", "^",
                  "$", "\\", ".", "&", "~", "#", " ", "\t", "\n", "\r", "\f"}

(***************************************************************************)
(* endpoint_to_regex: pattern text.                                        *)
(***************************************************************************)
RECURSIVE Escape(_)
Escape(s) ==
    IF s = <<>> THEN <<>>
    ELSE (IF Head(s) \in EscapeSpecial THEN <<"\\", Head(s)>> ELSE <<Head(s)>>)
         \o Escape(Tail(s))

\* index just past the longest run of identifier characters starting at i
RECURSIVE IdentEnd(_, _)
IdentEnd(p, i) ==
    IF i <= Len(p) /\ p[i] \in IdentChar THEN IdentEnd(p, i + 1) ELSE i

NonSlashRun == <<"[", "^", "/", "]", "+">>

\* re.sub(r"\\:([a-zA-Z_][a-zA-Z0-9_]*)", r"[^/]+", pattern)
RECURSIVE SubColonFrom(_, _)
SubColonFrom(p, i) ==
    IF i > Len(p) THEN <<>>
    ELSE IF /\ i + 2 <= Len(p)
            /\ p[i] = "\\"
            /\ p[i + 1] = ":"
            /\ p[i + 2] \in IdentStart
         THEN NonSlashRun \o SubColonFrom(p, IdentEnd(p, i + 3))
         ELSE <<p[i]>> \o SubColonFrom(p, i + 1)

SubColon(p) == SubColonFrom(p, 1)

\* re.sub(r"\\{[a-zA-Z_][a-zA-Z0-9_]*\\}", r"[^/]+", pattern)
RECURSIVE SubBraceFrom(_, _)
SubBraceFrom(p, i) ==
    IF i > Len(p) THEN <<>>
    ELSE IF /\ i + 2 <= Len(p)
            /\ p[i] = "\\"
            /\ p[i + 1] = "{"
            /\ p[i + 2] \in IdentStart
            /\ LET e == IdentEnd(p, i + 3)
               IN  e + 1 <= Len(p) /\ p[e] = "\\" /\ p[e + 1] = "}"
         THEN NonSlashRun \o SubBraceFrom(p, IdentEnd(p, i + 3) + 2)
         ELSE <<p[i]>> \o SubBraceFrom(p, i + 1)

SubBrace(p) == SubBraceFrom(p, 1)

\* str.rstrip("/")
RECURSIVE RStripSlash(_)
RStripSlash(p) ==
    IF p # <<>> /\ p[Len(p)] = "/" THEN RStripSlash(SubSeq(p, 1, Len(p) - 1))
    ELSE p

\* r"/?(\\?.*)?$": the raw string holds two backslashes
Suffix == <<"/", "?", "(", "\\", "\\", "?", ".", "*", ")", "?", "$">>

PatternText(endpoint) == RStripSlash(SubBrace(SubColon(Escape(endpoint)))) \o Suffix

(***************************************************************************)
(* re.compile / pattern.search for the pattern language the program can    *)
(* produce: literals, escapes, ".", "[^/]", "^", "$", groups and the       *)
(* quantifiers "?", "*", "+".                                              *)
(***************************************************************************)
Atom(k, c, body) == [k |-> k, c |-> c, body |-> body, q |-> "1"]

RECURSIVE ParseSeq(_, _)

ParseAtom(p, i) ==
    IF p[i] = "\\" /\ i + 1 <= Len(p)
    THEN [a |-> Atom("lit", p[i + 1], <<>>), next |-> i + 2]
    ELSE IF p[i] = "[" /\ i + 3 <= Len(p) /\ SubSeq(p, i, i + 3) = <<"[", "^", "/", "]">>
    THEN [a |-> Atom("notslash", "", <<>>), next |-> i + 4]
    ELSE IF p[i] = "("
    THEN LET r == ParseSeq(p, i + 1)
         IN  [a |-> Atom("grp", "", r.items), next |-> r.next + 1]
    ELSE IF p[i] = "." THEN [a |-> Atom("any", "", <<>>), next |-> i + 1]
    ELSE IF p[i] = "$" THEN [a |-> Atom("end", "", <<>>), next |-> i + 1]
    ELSE IF p[i] = "^" THEN [a |-> Atom("begin", "", <<>>), next |-> i + 1]
    ELSE [a |-> Atom("lit", p[i], <<>>), next |-> i + 1]

ParseSeq(p, i) ==
    IF i > Len(p) \/ p[i] = ")" THEN [items |-> <<>>, next |-> i]
    ELSE LET a == ParseAtom(p, i)
             hasq == a.next <= Len(p) /\ p[a.next] \in {"?", "*", "+"}
             item == [a.a EXCEPT !.q = IF hasq THEN p[a.next] ELSE "1"]
             rest == ParseSeq(p, IF hasq THEN a.next + 1 ELSE a.next)
         IN  [items |-> <<item>> \o rest.items, next |-> rest.next]

\* re.compile(pattern, re.IGNORECASE)
Compile(p) == ParseSeq(p, 1).items

RECURSIVE MatchSeq(_, _, _)

\* positions reached from a position of P by matching the atom once
AtomStep(a, s, P) ==
    CASE a.k = "lit" ->
            {x + 1 : x \in {y \in P : y <= Len(s) /\ FoldCase(s[y]) = FoldCase(a.c)}}
      [] a.k = "any" ->
            {x + 1 : x \in {y \in P : y <= Len(s) /\ s[y] # "\n"}}
      [] a.k = "notslash" ->
            {x + 1 : x \in {y \in P : y <= Len(s) /\ s[y] # "/"}}
      [] a.k = "end" ->
            {y \in P : y = Len(s) + 1 \/ (y = Len(s) /\ s[y] = "\n")}
      [] a.k = "begin" -> {y \in P : y = 1}
      [] a.k = "grp" -> MatchSeq(a.body, s, P)

RECURSIVE Repeat(_, _, _)
Repeat(a, s, S) ==
    LET n == S \cup AtomStep(a, s, S)
    IN  IF n = S THEN S ELSE Repeat(a, s, n)

ItemStep(it, s, P) ==
    CASE it.q = "1" -> AtomStep(it, s, P)
      [] it.q = "?" -> P \cup AtomStep(it, s, P)
      [] it.q = "+" -> Repeat(it, s, AtomStep(it, s, P))
      [] it.q = "*" -> Repeat(it, s, P)

MatchSeq(items, s, P) ==
    IF items = <<>> THEN P
    ELSE MatchSeq(Tail(items), s, ItemStep(Head(items), s, P))

\* pattern.search(line) is not None
Search(pattern, line) ==
    \E i \in 1..(Len(line) + 1) : MatchSeq(pattern, line, {i}) # {}

endpoint_to_regex(endpoint) == Compile(PatternText(endpoint))


(***************************************************************************)
(* Pattern-compiler harness: endpoint_to_regex and pattern.search applied  *)
(* to templates and lines drawn from bounded sets.                         *)
(***************************************************************************)
MaxSegs == 2
MaxLineLen == 4

Str_health == <<"/","h","e","a","l","t","h">>
Str_users_brace == <<"/","u","s","e","r","s","/","{","i","d","}">>
Str_users_colon == <<"/","u","s","e","r","s","/",":","i","d">>

\* the templates and lines quoted in the specification's testable properties
ExampleTemplates == {Str_health, Str_users_brace, Str_users_colon}
ExampleLines ==
    { <<"G","E","T"," ">> \o Str_health \o <<"\n">>,
      Str_health \o <<"/">>,
      Str_health \o <<"c","h","e","c","k">>,
      <<"f","e","t","c","h","(","'","/","u","s","e","r","s","/","4","2","'",")","\n">>,
      <<"/","u","s","e","r","s","/","4","2","/">>,
      <<"/","u","s","e","r","s","/","4","2","?","x","=","1">>,
      <<"/","u","s","e","r","s","/","4","2","/","e","x","t","r","a">> }

ReSegments == { <<"h">>, <<"{","i","}">>, <<":","i">>, <<>> }

RECURSIVE SegTemplates(_)
SegTemplates(n) ==
    IF n = 0 THEN {<<>>}
    ELSE {t \o <<"/">> \o g : t \in SegTemplates(n - 1), g \in ReSegments}
         \cup SegTemplates(n - 1)

ReTemplates == (SegTemplates(MaxSegs) \ {<<>>}) \cup ExampleTemplates

LineAlphabet == {"/", "h", "H", "?"}

ReLines ==
    LET bodies == UNION {[1..k -> LineAlphabet] : k \in 0..MaxLineLen}
    IN  bodies \cup {b \o <<"\n">> : b \in bodies} \cup ExampleLines

ReIdle ==
    /\ re_pc = "off" /\ re_tmpl = <<>> /\ re_line = <<>>
    /\ re_pat = <<>> /\ re_res = FALSE

MainIdle ==
    /\ pc = "off"
    /\ project_dirs = <<>> /\ fs_mode = [kind |-> "ok", after |-> 0]
    /\ endpoints = <<>> /\ pidx = 0 /\ walk = <<>> /\ cur = <<>> /\ lineno = 0
    /\ used = <<>> /\ used_map = <<>> /\ partials = <<>> /\ warnings = <<>>
    /\ rows = <<>> /\ csv_rows = <<>>

InitRe ==
    /\ MainIdle
    /\ re_pc = "input"
    /\ re_tmpl \in ReTemplates
    /\ re_line \in ReLines
    /\ re_pat = <<>>
    /\ re_res = FALSE

ReCompile ==
    /\ re_pc = "input"
    /\ re_pat' = endpoint_to_regex(re_tmpl)
    /\ re_pc' = "compiled"
    /\ UNCHANGED <<re_tmpl, re_line, re_res>>
    /\ UNCHANGED mainVars

ReSearch ==
    /\ re_pc = "compiled"
    /\ re_res' = Search(re_pat, re_line)
    /\ re_pc' = "searched"
    /\ UNCHANGED <<re_tmpl, re_line, re_pat>>
    /\ UNCHANGED mainVars

NextRe == ReCompile \/ ReSearch

SpecRe == InitRe /\ [][NextRe]_vars

(***************************************************************************)
(* Inputs of a run: the uploaded endpoint file (read by load_endpoints),   *)
(* the project roots and the file system under them.                       *)
(***************************************************************************)
MaxEndpoints == 3
MaxRoots == 2

PathA == <<"/","a">>
PathB == <<"/","b","/","{","x","}">>
Paths == {PathA, PathB}

\* method keys of a structured document, as written in it
MethodKeys == { <<"g","e","t">>, <<"G","E","T">>, <<"p","o","s","t">> }

\* lines of a plain-text endpoint list, as written in it
RawTextLines == { PathA, <<" ">> \o PathA \o <<" ">>, PathB, <<" ">> }

SeqsUpTo(S, n) == UNION {[1..k -> S] : k \in 0..n}

\* a mapping path -> {method -> operation} read in document order: no
\* (path, method) pair twice, the methods of one path together
StructuredDocs ==
    {d \in SeqsUpTo([path : Paths, method : MethodKeys], MaxEndpoints) :
        /\ \A i, j \in DOMAIN d : i # j => d[i] # d[j]
        /\ \A i, j, k \in DOMAIN d :
              (i < j /\ j < k /\ d[i].path = d[k].path) => d[j].path = d[i].path}

TextDocs == SeqsUpTo(RawTextLines, MaxEndpoints)

EndpointFiles ==
    {[ext |-> e, ok |-> TRUE, doc |-> d] : e \in {".json", ".yaml"}, d \in StructuredDocs}
    \cup {[ext |-> ".txt", ok |-> TRUE, doc |-> d] : d \in TextDocs}
    \cup {[ext |-> e, ok |-> FALSE, doc |-> <<>>] : e \in {".json", ".yaml", ".txt"}}

\* source lines
Line_a == <<"G","E","T"," ","/","a","\n">>
Line_ba == <<"/","b","/","7","?","r","=","/","A">>
Line_b0 == <<"/","b","\n">>
Line_b == <<"/","b","/","7","/","\n">>

File_x == [dir |-> <<"p">>, name |-> <<"x",".","j","s">>,
           lines |-> <<Line_a, Line_ba>>, fragile |-> TRUE]
File_y == [dir |-> <<"p","s">>, name |-> <<"y",".","t","s">>,
           lines |-> <<Line_b0, Line_b>>, fragile |-> FALSE]
File_n == [dir |-> <<"p","s">>, name |-> <<"n",".","m","d">>,
           lines |-> <<Line_a>>, fragile |-> FALSE]
Files == {File_x, File_y, File_n}

\* directories of the file system, parents before children
Dirs == << <<"p">>, <<"p","s">> >>

Roots == { <<"p">>, <<"p","s">>, <<"gone">> }

\* a read of a fragile file succeeds, fails in open(), or raises
\* UnicodeDecodeError once `after` lines have been yielded (an error before
\* the first line is yielded leaves the same state as a failed open)
FsModes ==
    { [kind |-> "ok", after |-> 0], [kind |-> "open", after |-> 0] }
    \cup { [kind |-> "decode", after |-> n] : n \in 1..(Len(File_x.lines) - 1) }

IsPrefix(a, b) == Len(a) <= Len(b) /\ SubSeq(b, 1, Len(a)) = a

Exists(root) == \E i \in DOMAIN Dirs : Dirs[i] = root

(***************************************************************************)
(* load_endpoints                                                          *)
(***************************************************************************)
Whitespace == {" ", "\t", "\n", "\r", "\f"}

RECURSIVE LStrip(_)
LStrip(s) == IF s # <<>> /\ Head(s) \in Whitespace THEN LStrip(Tail(s)) ELSE s

RECURSIVE RStrip(_)
RStrip(s) ==
    IF s # <<>> /\ s[Len(s)] \in Whitespace THEN RStrip(SubSeq(s, 1, Len(s) - 1))
    ELSE s

\* str.strip()
Strip(s) == RStrip(LStrip(s))

\* str.upper()
Upper(s) == [i \in DOMAIN s |-> UpperChar(s[i])]

RECURSIVE TextEndpoints(_)
TextEndpoints(ls) ==
    IF ls = <<>> THEN <<>>
    ELSE (IF Strip(Head(ls)) # <<>> THEN << <<Strip(Head(ls)), <<>> >> >> ELSE <<>>)
         \o TextEndpoints(Tail(ls))

StructuredEndpoints(doc) == [i \in DOMAIN doc |-> <<doc[i].path, Upper(doc[i].method)>>]

load_endpoints(file) ==
    IF file.ext = ".json" THEN StructuredEndpoints(file.doc)
    ELSE IF file.ext = ".yaml" THEN StructuredEndpoints(file.doc)
    ELSE TextEndpoints(file.doc)

\* what load_endpoints returns for the uploads it can read
LoadableEndpoints == {load_endpoints(file) : file \in {f \in EndpointFiles : f.ok}}

\* the uploads on which json.load, yaml.safe_load or bytes.decode raises
UnloadableFiles == {f \in EndpointFiles : ~f.ok}

(***************************************************************************)
(* find_endpoints_in_code                                                  *)
(***************************************************************************)
EmptyMap == <<>>

Lookup(m, k) == IF k \in DOMAIN m THEN m[k] ELSE <<>>

\* if key not in m: m[key] = []  ;  m[key].append(occ)
AppendTo(m, k, occ) ==
    [x \in DOMAIN m \cup {k} |-> IF x = k THEN Lookup(m, k) \o <<occ>> ELSE m[x]]

\* os.path.basename(os.path.abspath(project_dir))
Basename(root) == root[Len(root)]

\* file.endswith((".js", ".jsx", ".ts", ".tsx", ".vue", ".dart"))
AllowedExt == { <<".","j","s">>, <<".","j","s","x">>, <<".","t","s">>,
                <<".","t","s","x">>, <<".","v","u","e">>, <<".","d","a","r","t">> }

EndsWith(s, suf) == Len(suf) <= Len(s) /\ SubSeq(s, Len(s) - Len(suf) + 1, Len(s)) = suf

Selected(f) == \E e \in AllowedExt : EndsWith(f.name, e)

\* os.path.join(root, file)
FilePath(f) == [dir |-> f.dir, name |-> f.name]

Perms(S) == {q \in [1..Cardinality(S) -> S] : \A i, j \in DOMAIN q : i # j => q[i] # q[j]}

\* os.walk(project_dir): top-down, the files of one directory in any order;
\* a root that is no directory yields nothing (os.walk ignores the error)
RECURSIVE WalkFrom(_, _)
WalkFrom(root, i) ==
    IF i > Len(Dirs) THEN {<<>>}
    ELSE LET here == IF IsPrefix(root, Dirs[i])
                     THEN Perms({f \in Files : f.dir = Dirs[i]})
                     ELSE {<<>>}
         IN  {a \o b : a \in here, b \in WalkFrom(root, i + 1)}

Walks(root) == WalkFrom(root, 1)

\* the compiled matcher of every path template and its verdict on every
\* source line, computed once
AllLines == UNION {Range(f.lines) : f \in Files}
SearchTable ==
    [ep \in Paths |-> [l \in AllLines |-> Search(endpoint_to_regex(ep), l)]]

Matches(ep, line) == SearchTable[ep][line]

\* the loop with the entry created before the pattern is tested
RECURSIVE ScanLineEager(_, _, _, _, _)
ScanLineEager(m, eps, j, line, occ) ==
    IF j > Len(eps) THEN m
    ELSE LET e == [x \in DOMAIN m \cup {eps[j]} |-> Lookup(m, x)]
         IN  ScanLineEager(IF Matches(eps[j][1], line) THEN AppendTo(e, eps[j], occ) ELSE e,
                           eps, j + 1, line, occ)

\* the loop over endpoint_patterns for one line (app.py:78-82)
RECURSIVE ScanLine(_, _, _, _, _)
ScanLine(m, eps, j, line, occ) ==
    IF j > Len(eps) THEN m
    ELSE ScanLine(IF Matches(eps[j][1], line) THEN AppendTo(m, eps[j], occ) ELSE m,
                  eps, j + 1, line, occ)

\* the merge with assignment in place of extend
MergeKeyOverwrite(m, k, val) ==
    [x \in DOMAIN m \cup {k} |-> IF x = k THEN val ELSE m[x]]

\* the merge of one project's result into used_map (app.py:132-135)
MergeKey(m, k, val) ==
    [x \in DOMAIN m \cup {k} |-> IF x = k THEN Lookup(m, k) \o val ELSE m[x]]

RECURSIVE MergeInto(_, _, _)
MergeInto(m, part, keys) ==
    IF keys = {} THEN m
    ELSE LET k == CHOOSE x \in keys : TRUE
         IN  MergeInto(MergeKey(m, k, part[k]), part, keys \ {k})

(***************************************************************************)
(* Report rows (app.py:138-145 and export_to_csv)                          *)
(***************************************************************************)
Row(key, m) ==
    IF key \in DOMAIN m
    THEN [ep |-> key[1], method |-> key[2], status |-> "used",
          files |-> [i \in DOMAIN m[key] |-> <<m[key][i][1], m[key][i][2]>>],
          projects |-> {m[key][i][3] : i \in DOMAIN m[key]}]
    ELSE [ep |-> key[1], method |-> key[2], status |-> "unused",
          files |-> <<>>, projects |-> {}]

TableRows(eps, m) == [i \in DOMAIN eps |-> Row(eps[i], m)]

\* the export with rows for the used descriptors only
export_used_only(eps, m) ==
    LET InMap(k) == k \in DOMAIN m
    IN  [i \in DOMAIN SelectSeq(eps, InMap) |-> Row(SelectSeq(eps, InMap)[i], m)]

export_to_csv(eps, m) == [i \in DOMAIN eps |-> Row(eps[i], m)]

(***************************************************************************)
(* The run (app.py:122-180).                                               *)
(***************************************************************************)
Init ==
    /\ ReIdle
    /\ pc = "start"
    /\ project_dirs \in SeqsUpTo(Roots, MaxRoots)
    /\ fs_mode \in FsModes
    /\ endpoints = <<>> /\ pidx = 0 /\ walk = <<>> /\ cur = <<>> /\ lineno = 0
    /\ used = EmptyMap /\ used_map = EmptyMap /\ partials = <<>>
    /\ warnings = <<>> /\ rows = <<>> /\ csv_rows = <<>>

\* endpoints = load_endpoints(endpoint_file); used_map = {}
LoadOk ==
    /\ pc = "start"
    /\ \E eps \in LoadableEndpoints : endpoints' = eps
    /\ used_map' = EmptyMap
    /\ pidx' = 1
    /\ pc' = "scan"
    /\ UNCHANGED <<project_dirs, fs_mode, walk, cur, lineno, used, partials,
                   warnings, rows, csv_rows>>
    /\ UNCHANGED reVars

\* json.load / yaml.safe_load / bytes.decode raises: the script run ends
LoadFail ==
    /\ pc = "start"
    /\ UnloadableFiles # {}
    /\ pc' = "aborted"
    /\ UNCHANGED <<project_dirs, fs_mode, endpoints, pidx, walk, cur, lineno, used,
                   used_map, partials, warnings, rows, csv_rows>>
    /\ UNCHANGED reVars

\* find_endpoints_in_code(pdir, endpoints) up to the first os.walk step
BeginScan ==
    /\ pc = "scan"
    /\ pidx <= Len(project_dirs)
    /\ used' = EmptyMap
    /\ \E w \in Walks(project_dirs[pidx]) : walk' = w
    /\ cur' = <<>>
    /\ lineno' = 0
    /\ pc' = "walk"
    /\ UNCHANGED <<project_dirs, fs_mode, endpoints, pidx, used_map,
                   partials, warnings, rows, csv_rows>>
    /\ UNCHANGED reVars

\* a file whose name ends in no allow-listed extension
SkipFile ==
    /\ pc = "walk" /\ cur = <<>> /\ walk # <<>>
    /\ ~Selected(Head(walk))
    /\ walk' = Tail(walk)
    /\ UNCHANGED <<pc, project_dirs, fs_mode, endpoints, pidx, cur,
                   lineno, used, used_map, partials, warnings, rows, csv_rows>>
    /\ UNCHANGED reVars

OpenFails(f) == f.fragile /\ fs_mode.kind = "open"

DecodeFails(f, n) == f.fragile /\ fs_mode.kind = "decode" /\ n = fs_mode.after

\* no handler: the exception leaves find_endpoints_in_code and ends the run
ExceptPropagates(ws, fp) == [pc |-> "aborted", warnings |-> ws]

\* except Exception as e: st.warning(...)   (the loop over files goes on)
ExceptHandler(ws, fp) == [pc |-> "walk", warnings |-> Append(ws, fp)]

OpenFail ==
    /\ pc = "walk" /\ cur = <<>> /\ walk # <<>>
    /\ Selected(Head(walk))
    /\ OpenFails(Head(walk))
    /\ LET h == ExceptHandler(warnings, FilePath(Head(walk)))
       IN  pc' = h.pc /\ warnings' = h.warnings
    /\ walk' = Tail(walk)
    /\ UNCHANGED <<project_dirs, fs_mode, endpoints, pidx, cur,
                   lineno, used, used_map, partials, rows, csv_rows>>
    /\ UNCHANGED reVars

OpenFile ==
    /\ pc = "walk" /\ cur = <<>> /\ walk # <<>>
    /\ Selected(Head(walk))
    /\ ~OpenFails(Head(walk))
    /\ cur' = <<Head(walk)>>
    /\ lineno' = 0
    /\ walk' = Tail(walk)
    /\ UNCHANGED <<pc, project_dirs, fs_mode, endpoints, pidx, used,
                   used_map, partials, warnings, rows, csv_rows>>
    /\ UNCHANGED reVars

\* the next line decodes: it is tested against every pattern
ReadLine ==
    /\ pc = "walk" /\ cur # <<>>
    /\ lineno < Len(cur[1].lines)
    /\ ~DecodeFails(cur[1], lineno)
    /\ used' = ScanLine(used, endpoints, 1, cur[1].lines[lineno + 1],
                        <<FilePath(cur[1]), lineno + 1, Basename(project_dirs[pidx])>>)
    /\ lineno' = lineno + 1
    /\ UNCHANGED <<pc, project_dirs, fs_mode, endpoints, pidx, walk,
                   cur, used_map, partials, warnings, rows, csv_rows>>
    /\ UNCHANGED reVars

\* the next chunk of the file does not decode
DecodeFail ==
    /\ pc = "walk" /\ cur # <<>>
    /\ lineno < Len(cur[1].lines)
    /\ DecodeFails(cur[1], lineno)
    /\ LET h == ExceptHandler(warnings, FilePath(cur[1]))
       IN  pc' = h.pc /\ warnings' = h.warnings
    /\ cur' = <<>>
    /\ UNCHANGED <<project_dirs, fs_mode, endpoints, pidx, walk,
                   lineno, used, used_map, partials, rows, csv_rows>>
    /\ UNCHANGED reVars

\* end of file
CloseFile ==
    /\ pc = "walk" /\ cur # <<>>
    /\ lineno = Len(cur[1].lines)
    /\ cur' = <<>>
    /\ UNCHANGED <<pc, project_dirs, fs_mode, endpoints, pidx, walk,
                   lineno, used, used_map, partials, warnings, rows, csv_rows>>
    /\ UNCHANGED reVars

\* return used; then the merge loop of app.py:132-135
ReturnMerge ==
    /\ pc = "walk" /\ cur = <<>> /\ walk = <<>>
    /\ partials' = Append(partials, used)
    /\ used_map' = MergeInto(used_map, used, DOMAIN used)
    /\ pidx' = pidx + 1
    /\ pc' = "scan"
    /\ UNCHANGED <<project_dirs, fs_mode, endpoints, walk, cur,
                   lineno, used, warnings, rows, csv_rows>>
    /\ UNCHANGED reVars

\* app.py:138-146
BuildTable ==
    /\ pc = "scan"
    /\ pidx > Len(project_dirs)
    /\ rows' = TableRows(endpoints, used_map)
    /\ pc' = "export"
    /\ UNCHANGED <<project_dirs, fs_mode, endpoints, pidx, walk, cur,
                   lineno, used, used_map, partials, warnings, csv_rows>>
    /\ UNCHANGED reVars

\* app.py:177
ExportCsv ==
    /\ pc = "export"
    /\ csv_rows' = export_to_csv(endpoints, used_map)
    /\ pc' = "done"
    /\ UNCHANGED <<project_dirs, fs_mode, endpoints, pidx, walk, cur,
                   lineno, used, used_map, partials, warnings, rows>>
    /\ UNCHANGED reVars

Next ==
    \/ LoadOk
    \/ LoadFail
    \/ BeginScan
    \/ SkipFile
    \/ OpenFail
    \/ OpenFile
    \/ ReadLine
    \/ DecodeFail
    \/ CloseFile
    \/ ReturnMerge
    \/ BuildTable
    \/ ExportCsv

Spec == Init /\ [][Next]_vars

\* the script is one sequential thread: it keeps taking its next step
FairSpec == Init /\ [][Next]_vars /\ WF_vars(Next)

(***************************************************************************)
(* Properties.                                                             *)
(***************************************************************************)
Hole == [Atom("notslash", "", <<>>) EXCEPT !.q = "+"]

\* a path template read as the specification reads it: ":name" and "{name}"
\* stand for a run of one or more characters other than "/"
RECURSIVE TemplateItems(_, _)
TemplateItems(t, i) ==
    IF i > Len(t) THEN <<>>
    ELSE IF /\ t[i] = "{" /\ i + 1 <= Len(t) /\ t[i + 1] \in IdentStart
            /\ IdentEnd(t, i + 2) <= Len(t) /\ t[IdentEnd(t, i + 2)] = "}"
         THEN <<Hole>> \o TemplateItems(t, IdentEnd(t, i + 2) + 1)
    ELSE IF t[i] = ":" /\ i + 1 <= Len(t) /\ t[i + 1] \in IdentStart
         THEN <<Hole>> \o TemplateItems(t, IdentEnd(t, i + 2))
    ELSE <<Atom("lit", t[i], <<>>)>> \o TemplateItems(t, i + 1)

\* an optional single "/", an optional "?" plus arbitrary text, end of line
LineTail ==
    << [Atom("lit", "/", <<>>) EXCEPT !.q = "?"],
       [Atom("grp", "", << Atom("lit", "?", <<>>),
                           [Atom("any", "", <<>>) EXCEPT !.q = "*"] >>)
          EXCEPT !.q = "?"],
       Atom("end", "", <<>>) >>

\* line l contains an occurrence of template t followed only by LineTail
OccursAtEnd(t, l) == Search(TemplateItems(t, 1) \o LineTail, l)

C1_Examples ==
    /\ (re_tmpl = Str_health
          /\ re_line \in {<<"G","E","T"," ">> \o Str_health \o <<"\n">>,
                          Str_health \o <<"/">>}) => re_res
    /\ (re_tmpl = Str_health
          /\ re_line = Str_health \o <<"c","h","e","c","k">>) => ~re_res
    /\ (re_tmpl = Str_users_brace
          /\ re_line = <<"/","u","s","e","r","s","/","4","2","/","e","x","t","r","a">>)
          => ~re_res

\* C1: whenever the matcher of template T matches line L, L contains an
\* occurrence of T (trailing "/" of T aside, placeholders read as non-slash
\* runs, letters compared without case) followed, up to the end of the line,
\* only by an optional single "/" and an optional "?" plus arbitrary text;
\* "/health" matches "GET /health" and "/health/" but not "/healthcheck",
\* and "/users/{id}" does not match "/users/42/extra".
C1_EndAnchored ==
    re_pc = "searched" =>
        /\ re_res => OccursAtEnd(RStripSlash(re_tmpl), re_line)
        /\ C1_Examples

\* the template with every ":name" placeholder rewritten as "{name}"
RECURSIVE BraceForm(_, _)
BraceForm(t, i) ==
    IF i > Len(t) THEN <<>>
    ELSE IF t[i] = ":" /\ i + 1 <= Len(t) /\ t[i + 1] \in IdentStart
         THEN <<"{">> \o SubSeq(t, i + 1, IdentEnd(t, i + 2) - 1) \o <<"}">>
              \o BraceForm(t, IdentEnd(t, i + 2))
    ELSE <<t[i]>> \o BraceForm(t, i + 1)

\* C2: a template written with ":name" placeholders matches exactly the
\* lines that the same template written with "{name}" placeholders matches,
\* and "/users/:id" matches "/users/42/" and "/users/42?x=1".
C2_ColonSameAsBrace ==
    re_pc = "searched" =>
        /\ re_res = Search(endpoint_to_regex(BraceForm(re_tmpl, 1)), re_line)
        /\ (re_tmpl = Str_users_colon
              /\ re_line \in {<<"/","u","s","e","r","s","/","4","2","/">>,
                              <<"/","u","s","e","r","s","/","4","2","?","x","=","1">>})
              => re_res

IsUsed(key) == key \in DOMAIN used_map /\ Len(used_map[key]) > 0

\* one row per entry of the descriptor list, in list order, with the status
\* the match map gives the entry
RowsCover(rs) ==
    /\ Len(rs) = Len(endpoints)
    /\ \A i \in DOMAIN rs :
          /\ rs[i].ep = endpoints[i][1]
          /\ rs[i].method = endpoints[i][2]
          /\ rs[i].status \in {"used", "unused"}
          /\ rs[i].status = "used" <=> IsUsed(endpoints[i])

\* C3: in the finished run both reports (table rows and CSV rows) hold one
\* row per entry of the descriptor list, repeated entries included, marked
\* "used" exactly when the match map holds a non-empty list for the entry.
C3_EveryDescriptorReportedOnce ==
    pc = "done" => RowsCover(rows) /\ RowsCover(csv_rows)

\* a finished run whose list repeats a descriptor and has used and unused rows
C3_Witness ==
    /\ pc = "done"
    /\ \E i, j \in DOMAIN endpoints : i # j /\ endpoints[i] = endpoints[j]
    /\ \E i \in DOMAIN rows : rows[i].status = "used"
    /\ \E i \in DOMAIN csv_rows : csv_rows[i].status = "unused"

RECURSIVE ConcatPartials(_, _)
ConcatPartials(k, n) ==
    IF n = 0 THEN <<>> ELSE ConcatPartials(k, n - 1) \o Lookup(partials[n], k)

\* C4: after any number of merged project roots, the merged list of every
\* key is the concatenation, in processing order, of the lists the scans
\* returned for it, and the merged map holds no other key.
C4_MergeIsConcatenation ==
    /\ \A k \in DOMAIN used_map : \E i \in DOMAIN partials : k \in DOMAIN partials[i]
    /\ \A k \in Range(endpoints) : Lookup(used_map, k) = ConcatPartials(k, Len(partials))

\* a root and a root nested in it were merged, both with matches for one key
C4_Witness ==
    /\ pc = "done"
    /\ project_dirs = << <<"p">>, <<"p","s">> >>
    /\ \E k \in DOMAIN partials[1] \cap DOMAIN partials[2] :
          Len(used_map[k]) = Len(partials[1][k]) + Len(partials[2][k])

\* the files under a root whose name ends in an allow-listed extension
SelectedUnder(root) == {f \in Files : IsPrefix(root, f.dir) /\ Selected(f)}

\* the occurrences the scan of root owes to key k for the files fs
Expected(root, k, fs) ==
    UNION { {<<FilePath(f), n, Basename(root)>> :
                n \in {m \in DOMAIN f.lines : Matches(k[1], f.lines[m])}} :
            f \in fs \cap SelectedUnder(root) }

Unreadable(f) == f.fragile /\ fs_mode.kind # "ok"

OccurrencesOf(m) == UNION {Range(m[k]) : k \in DOMAIN m}

\* C5: a selected file that cannot be opened or decoded contributes no
\* occurrence to the value a scan returns and is warned about once per scan,
\* while the readable files under the root are scanned completely.
C5_UnreadableFileSkipped ==
    /\ \A i \in DOMAIN partials :
          /\ \A o \in OccurrencesOf(partials[i]) :
                \A f \in Files : Unreadable(f) => o[1] # FilePath(f)
          /\ \A k \in Range(endpoints) :
                Expected(project_dirs[i], k, {f \in Files : ~Unreadable(f)})
                    \subseteq Range(Lookup(partials[i], k))
    /\ pc = "scan" =>
          \A f \in Files :
             Unreadable(f) /\ Selected(f) =>
                Cardinality({j \in DOMAIN warnings : warnings[j] = FilePath(f)})
                  = Cardinality({i \in DOMAIN partials : IsPrefix(project_dirs[i], f.dir)})

\* C6: in a finished run every supplied root that is no directory has been
\* surfaced by a diagnostic that refers to it.
C6_MissingRootSurfaced ==
    pc = "done" =>
        \A i \in DOMAIN project_dirs :
            ~Exists(project_dirs[i]) =>
                \E j \in DOMAIN warnings : warnings[j].dir = project_dirs[i]

\* C7: neither the per-project map nor the merged map ever holds a key
\* with an empty occurrence list.
C7_NoEmptyEntry ==
    /\ \A k \in DOMAIN used : Len(used[k]) > 0
    /\ \A k \in DOMAIN used_map : Len(used_map[k]) > 0

\* a second root is being scanned: both maps hold entries, and a descriptor
\* of the list has matched nothing so far
C7_Witness ==
    /\ pc = "walk" /\ lineno > 0
    /\ DOMAIN used # {} /\ DOMAIN used_map # {}
    /\ \E i \in DOMAIN endpoints : endpoints[i] \notin DOMAIN used

\* C8: in a finished run two descriptors of the list with the same path
\* template and different methods are both absent from the match map or
\* hold the same sequence of occurrences.
C8_MethodIrrelevant ==
    pc = "done" =>
        \A i, j \in DOMAIN endpoints :
            (endpoints[i][1] = endpoints[j][1] /\ endpoints[i][2] # endpoints[j][2])
                => Lookup(used_map, endpoints[i]) = Lookup(used_map, endpoints[j])

\* C9: a run whose load failed has scanned no root and built no report, and
\* a run that loaded its descriptors reaches the report covering all of them.
C9_FailureOrdering ==
    /\ [](pc = "aborted" =>
            /\ pidx = 0 /\ Len(partials) = 0 /\ Len(warnings) = 0
            /\ Len(rows) = 0 /\ Len(csv_rows) = 0)
    /\ (pc = "scan") ~> (pc = "done" /\ RowsCover(rows) /\ RowsCover(csv_rows))

\* a run that met an unreadable file finished with a report of several rows
C9_Witness ==
    /\ pc = "done"
    /\ Len(warnings) > 0
    /\ Len(rows) > 1

\* C10: with every file readable, the list a scan returns for key k holds
\* each occurrence (file, line number, basename of the root) of a matching
\* line of a selected file under the root exactly once, and nothing else.
C10_ScannerExact ==
    fs_mode.kind = "ok" =>
        \A i \in DOMAIN partials :
            /\ DOMAIN partials[i] \subseteq Range(endpoints)
            /\ \A k \in Range(endpoints) :
                  LET lst == Lookup(partials[i], k)
                  IN  /\ Range(lst) = Expected(project_dirs[i], k, Files)
                      /\ \A a, b \in DOMAIN lst : a # b => lst[a] # lst[b]

=============================================================================
